---- MODULE Spec2Model ----
(***************************************************************************)
(* Control loop of the heartbeat agent: the managed-shell registry, the    *)
(* per-shell output buffers, the pending-callback ledger, the heartbeat    *)
(* engine and its timer.  The heartbeat engine and the scheduler are those *)
(* of src/unnamed/part_001; the shell registry and the task executor are   *)
(* those of the node-pty module src/server/process.js (second copy,       *)
(* lines 509-1113), whose hooks scheduleNextHeartbeat and                  *)
(* COMMAND_RESPONSE_DELAY are the scheduler's.                             *)
(*                                                                         *)
(* Strings are sequences of one-character strings.  One action is one     *)
(* event-loop turn: an await on an already settled promise resumes in the  *)
(* same microtask drain, so no timer, PTY or HTTP callback runs inside it. *)
(***************************************************************************)
EXTENDS Integers, Sequences, FiniteSets, TLC

VARIABLES
    runningProcesses,        \* Map pid -> process object (workingDirectory, _expectPwd)
    processOutputBuffer,     \* Map pid -> unshipped output
    processCommandExecuted,  \* Map pid -> boolean
    pendingCallbacks,        \* {process_death: [...], process_created: pid|null}
    heartbeatInProgress,
    processingTasks,
    heartbeatTimer,          \* delay of the timer the handle refers to, 0 when null or already fired
    timers,                  \* delays of the timers that are armed and have not fired, oldest first
    lastHeartbeatStatus,     \* the status field of lastHeartbeatStatus
    lastResponseCode,        \* response.statusCode of lastHeartbeatStatus, 0 when response is null
    pc,                      \* where sendHeartbeat is suspended or, inside the turn that
                             \* handles the response, how far it has got
    payload,                 \* the payload sendHeartbeat holds until it is posted
    response,                \* response.data while the turn that handles it runs
    nextPid,                 \* the pid the next spawned shell gets
    ptyAlive,                \* shells whose exit notification is still to come
    configured,              \* CLI_TOKEN && SERVER_URL
    inFlight,                \* sendHeartbeat invocations past the busy check, not finished
    sentCallback,            \* callback field of the request body, as serialized, while
                             \* the POST is pending or after it was rejected
    owed,                    \* shells with a written command no later heartbeat has had confirmed
    diedInFlight,            \* shells that died since the payload of the pending POST was built
    mustReport,              \* dead shells no successful heartbeat has reported yet
    reported,                \* dead shells a successful heartbeat has reported
    unshipped,               \* shells whose buffer holds output no payload has contained
    spawned,                 \* the shell spawned last since the last payload was built, 0 if none
    call,                    \* the last call made on the registry module by itself, with
                             \* its arguments
    reg,                     \* the state of the registry module when it is driven by itself
    tty                      \* the shell behind the PTY then: its directory and the
                             \* directories its pending pwd commands are going to print

agentVars == <<runningProcesses, processOutputBuffer, processCommandExecuted,
               pendingCallbacks, heartbeatInProgress, processingTasks,
               heartbeatTimer, timers, lastHeartbeatStatus, lastResponseCode, pc,
               payload, response,
               nextPid, ptyAlive, configured, inFlight, sentCallback, owed,
               diedInFlight, mustReport, reported, unshipped, spawned>>

vars == <<agentVars, call, reg, tty>>

----------------------------------------------------------------------------
(* Bounds *)

MaxPid == 1            \* shells spawned in one run
MAX_BUFFER_SIZE == 1   \* the 10 * 1024 cap of the output buffer, scaled down
MaxTaskItems == 2      \* entries in one task batch

(* Program constants *)

DEFAULT_HEARTBEAT_INTERVAL == 5000
MANAGED_HEARTBEAT_INTERVAL == 2000
COMMAND_RESPONSE_DELAY == 1000
RETRY_DELAY == 1000

Null == 0
OkCode == 1                \* response.data.statusCode === 1
BadCodes == {2}            \* any other statusCode
Pids == 1..MaxPid
UnknownPid == MaxPid + 1   \* a pid no shell of the agent ever gets
Cwd0 == <<"/", "h">>
Chunks == { <<"a">> }
Commands == { <<"l", "s">> }

----------------------------------------------------------------------------
(* Helpers on maps, arrays and strings *)

Range(s) == { s[i] : i \in 1..Len(s) }

MapSet(m, k, v) == [x \in DOMAIN m \cup {k} |-> IF x = k THEN v ELSE m[x]]

MapDelete(m, k) == [x \in DOMAIN m \ {k} |-> m[x]]

EmptyMap == [x \in {} |-> 0]

Includes(arr, x) == \E i \in 1..Len(arr) : arr[i] = x

IsSpace(c) == c \in {" ", "\n", "\t", "\r"}

RECURSIVE TrimStart(_)
TrimStart(s) ==
    IF s # <<>> /\ IsSpace(Head(s)) THEN TrimStart(Tail(s)) ELSE s

RECURSIVE TrimEnd(_)
TrimEnd(s) ==
    IF s # <<>> /\ IsSpace(s[Len(s)]) THEN TrimEnd(SubSeq(s, 1, Len(s) - 1)) ELSE s

Trim(s) == TrimStart(TrimEnd(s))

\* lines[lines.length - 1] of s.split('\n')
LastLine(s) ==
    LET nl == { i \in 1..Len(s) : s[i] = "\n" }
        last == IF nl = {} THEN 0 ELSE CHOOSE i \in nl : \A j \in nl : j <= i
    IN  SubSeq(s, last + 1, Len(s))

StartsWith(s, p) == Len(s) >= Len(p) /\ SubSeq(s, 1, Len(p)) = p

\* s.lastIndexOf(p), 0-based, -1 when p does not occur
LastIndexOf(s, p) ==
    LET at == { i \in 0..(Len(s) - Len(p)) : SubSeq(s, i + 1, i + Len(p)) = p }
    IN  IF at = {} THEN -1 ELSE CHOOSE i \in at : \A j \in at : j <= i

\* /^[A-Z]:\\/.test(s)
IsDrivePath(s) ==
    /\ Len(s) >= 3
    /\ s[1] \in {"A", "B", "C", "D", "E", "F", "G", "H", "I", "J", "K", "L", "M",
                 "N", "O", "P", "Q", "R", "S", "T", "U", "V", "W", "X", "Y", "Z"}
    /\ s[2] = ":"
    /\ s[3] = "\\"

----------------------------------------------------------------------------
(* The state the handlers of one turn read and write, as one record.       *)
(* threw is set when the running handler has thrown; commandExecuted is   *)
(* the local of processTasks; wr is the text of the last proc.write of    *)
(* the turn; aliased says that                                             *)
(* payload.callback.process_death is still the array object the ledger    *)
(* holds and is not serialized yet.                                       *)

Cur ==
    [rp |-> runningProcesses, buf |-> processOutputBuffer,
     pce |-> processCommandExecuted, pcb |-> pendingCallbacks,
     ht |-> heartbeatTimer, tm |-> timers, np |-> nextPid, alive |-> ptyAlive,
     pl |-> payload, aliased |-> (pc = "telemetry"),
     flying |-> (pc \in {"telemetry", "inflight"}),
     owed |-> owed, died |-> diedInFlight, must |-> mustReport,
     rep |-> reported, unsh |-> unshipped, sp |-> spawned, threw |-> FALSE,
     commandExecuted |-> FALSE, wr |-> <<>>]

Store(x) ==
    \E s \in {x} :
        /\ runningProcesses' = s.rp
        /\ processOutputBuffer' = s.buf
        /\ processCommandExecuted' = s.pce
        /\ pendingCallbacks' = s.pcb
        /\ heartbeatTimer' = s.ht
        /\ timers' = s.tm
        /\ nextPid' = s.np
        /\ ptyAlive' = s.alive
        /\ payload' = s.pl
        /\ owed' = s.owed
        /\ diedInFlight' = s.died
        /\ mustReport' = s.must
        /\ reported' = s.rep
        /\ unshipped' = s.unsh
        /\ spawned' = s.sp
        /\ UNCHANGED <<call, reg, tty>>

EmptyCallbacks == [process_death |-> <<>>, process_created |-> Null]

----------------------------------------------------------------------------
(* Scheduler *)

\* a busy test that never holds
Busy_Never(hip, pt) == FALSE

\* a busy test that forgets the running heartbeat
Busy_OnlyTasks(hip, pt) == pt

\* the test of sendHeartbeat and of the timer callback
Busy(hip, pt) == hip \/ pt

\* a delay choice that ignores the registry
NextDelay_IgnoresRegistry(delay, rp) ==
    IF delay # Null THEN delay ELSE DEFAULT_HEARTBEAT_INTERVAL

NextDelay(delay, rp) ==
    IF delay # Null THEN delay
    ELSE IF Cardinality(DOMAIN rp) > 0 THEN MANAGED_HEARTBEAT_INTERVAL
    ELSE DEFAULT_HEARTBEAT_INTERVAL

\* a scheduler that arms a timer without cancelling the pending one
ClearTimer_Keeps(tm, ht) == tm

\* if (heartbeatTimer) clearTimeout(heartbeatTimer): the handle is the timer
\* armed last; a null or fired handle clears nothing
ClearTimer(tm, ht) ==
    IF ht # Null /\ tm # <<>> THEN SubSeq(tm, 1, Len(tm) - 1) ELSE tm

scheduleNextHeartbeat(s, delay) ==
    LET d == NextDelay(delay, s.rp)
    IN  [s EXCEPT !.tm = Append(ClearTimer(s.tm, s.ht), d), !.ht = d]

----------------------------------------------------------------------------
(* Shell registry *)

\* pendingCallbacks.process_death.push(pid); the payload built by the
\* running heartbeat shares the array until it is serialized.
PushDeath(s, pid) ==
    [s EXCEPT !.pcb.process_death = Append(@, pid),
              !.pl = IF s.aliased
                     THEN [@ EXCEPT !.callback.process_death = Append(@, pid)]
                     ELSE @]

\* bookkeeping of a shell leaving the registry
NoteDeath(s, pid) ==
    [s EXCEPT !.must = IF pid \in s.rep THEN @ ELSE @ \cup {pid},
              !.died = IF s.flying THEN @ \cup {pid} ELSE @,
              !.owed = @ \ {pid},
              !.unsh = @ \ {pid}]

\* a parse that does not look at _expectPwd
OutputEffect_IgnoresFlag(proc, output) ==
    LET possiblePath == Trim(LastLine(Trim(output)))
    IN  IF StartsWith(possiblePath, <<"/">>) \/ IsDrivePath(possiblePath)
        THEN [proc |-> [proc EXCEPT !.workingDirectory = possiblePath,
                                    !._expectPwd = FALSE],
              text |-> SubSeq(output, 1, LastIndexOf(output, possiblePath))]
        ELSE [proc |-> proc, text |-> output]

\* a parse that takes the whole trimmed chunk for the path
OutputEffect_WholeChunk(proc, output) ==
    LET possiblePath == Trim(output)
    IN  IF proc._expectPwd
           /\ (StartsWith(possiblePath, <<"/">>) \/ IsDrivePath(possiblePath))
        THEN [proc |-> [proc EXCEPT !.workingDirectory = possiblePath,
                                    !._expectPwd = FALSE],
              text |-> SubSeq(output, 1, LastIndexOf(output, possiblePath))]
        ELSE [proc |-> proc, text |-> output]

\* what handleProcessOutput appends for a chunk, and the process fields after it
OutputEffect(proc, output) ==
    LET possiblePath == Trim(LastLine(Trim(output)))
    IN  IF proc._expectPwd
           /\ (StartsWith(possiblePath, <<"/">>) \/ IsDrivePath(possiblePath))
        THEN [proc |-> [proc EXCEPT !.workingDirectory = possiblePath,
                                    !._expectPwd = FALSE],
              text |-> SubSeq(output, 1, LastIndexOf(output, possiblePath))]
        ELSE [proc |-> proc, text |-> output]

\* a cap that keeps the oldest MAX_BUFFER_SIZE units
Truncate_KeepsHead(b) ==
    IF Len(b) > MAX_BUFFER_SIZE THEN SubSeq(b, 1, MAX_BUFFER_SIZE) ELSE b

\* keep the newest MAX_BUFFER_SIZE units
Truncate(b) ==
    IF Len(b) > MAX_BUFFER_SIZE
    THEN SubSeq(b, Len(b) - MAX_BUFFER_SIZE + 1, Len(b))
    ELSE b

handleProcessOutput(s, pid, output) ==
    LET currentBuffer == IF pid \in DOMAIN s.buf THEN s.buf[pid] ELSE <<>>
        known == pid \in DOMAIN s.rp
        eff == IF known THEN OutputEffect(s.rp[pid], output)
               ELSE [proc |-> Null, text |-> output]
        newBuffer == Truncate(currentBuffer \o eff.text)
    IN  [s EXCEPT !.buf = MapSet(@, pid, newBuffer),
                  !.rp = IF known THEN MapSet(@, pid, eff.proc) ELSE @,
                  !.unsh = IF eff.text # <<>> /\ newBuffer # <<>>
                           THEN @ \cup {pid} ELSE @]

\* the onExit handler installed by createNewProcess
onExit(s, pid) ==
    LET wasLive == pid \in DOMAIN s.rp
        s1 == [s EXCEPT !.rp = MapDelete(@, pid),
                        !.pce = MapDelete(@, pid),
                        !.buf = MapDelete(@, pid)]
        s2 == PushDeath(s1, pid)
        s3 == scheduleNextHeartbeat(s2, Null)
    IN  IF wasLive THEN NoteDeath(s3, pid) ELSE [s3 EXCEPT !.unsh = @ \ {pid}]

\* a createNewProcess() that publishes the id it would have given before it
\* rethrows
createNewProcess_PublishesOnFailure(s, spawnOk) ==
    IF ~spawnOk THEN [s EXCEPT !.threw = TRUE, !.pcb.process_created = s.np]
    ELSE
        LET pid == s.np
            s1 == [s EXCEPT !.rp = MapSet(@, pid, [workingDirectory |-> Cwd0,
                                                   _expectPwd |-> FALSE]),
                            !.pce = MapSet(@, pid, FALSE),
                            !.buf = MapSet(@, pid, <<>>),
                            !.pcb.process_created = pid,
                            !.np = @ + 1,
                            !.alive = @ \cup {pid},
                            !.sp = pid]
        IN  scheduleNextHeartbeat(s1, Null)

\* spawnOk = FALSE: pty.spawn throws and createNewProcess rethrows
createNewProcess(s, spawnOk) ==
    IF ~spawnOk THEN [s EXCEPT !.threw = TRUE]
    ELSE
        LET pid == s.np
            s1 == [s EXCEPT !.rp = MapSet(@, pid, [workingDirectory |-> Cwd0,
                                                   _expectPwd |-> FALSE]),
                            !.pce = MapSet(@, pid, FALSE),
                            !.buf = MapSet(@, pid, <<>>),
                            !.pcb.process_created = pid,
                            !.np = @ + 1,
                            !.alive = @ \cup {pid},
                            !.sp = pid]
        IN  scheduleNextHeartbeat(s1, Null)

(* Command normalisation of executeCommandInProcess *)

Quote == "\""
Apostrophe == "'"
Backslash == "\\"

Contains(s, c) == \E i \in 1..Len(s) : s[i] = c

\* the text of a JSON string literal decoded, ok = FALSE where JSON.parse
\* throws: the literal opens with a double quote, holds no raw control
\* character, only the escapes \" \\ \/ \n \r \t (the others JSON knows,
\* \b \f \u, use letters no command of the model holds after a backslash) and
\* is followed by white space only
RECURSIVE JsonChars(_, _, _)
JsonChars(s, i, acc) ==
    IF i > Len(s) THEN [ok |-> FALSE, value |-> acc]
    ELSE IF s[i] = Quote
         THEN [ok |-> \A j \in (i + 1)..Len(s) : IsSpace(s[j]), value |-> acc]
    ELSE IF s[i] \in {"\n", "\r", "\t"} THEN [ok |-> FALSE, value |-> acc]
    ELSE IF s[i] = Backslash
         THEN IF i = Len(s) THEN [ok |-> FALSE, value |-> acc]
              ELSE IF s[i + 1] \in {Quote, Backslash, "/"}
                   THEN JsonChars(s, i + 2, Append(acc, s[i + 1]))
              ELSE IF s[i + 1] = "n" THEN JsonChars(s, i + 2, Append(acc, "\n"))
              ELSE IF s[i + 1] = "r" THEN JsonChars(s, i + 2, Append(acc, "\r"))
              ELSE IF s[i + 1] = "t" THEN JsonChars(s, i + 2, Append(acc, "\t"))
              ELSE [ok |-> FALSE, value |-> acc]
    ELSE JsonChars(s, i + 1, Append(acc, s[i]))

\* JSON.parse(s) for a text that starts with a quote character; a text that
\* starts with an apostrophe is no JSON
JsonParse(s) ==
    IF s # <<>> /\ Head(s) = Quote THEN JsonChars(s, 2, <<>>)
    ELSE [ok |-> FALSE, value |-> s]

\* s.replace(/\\q/g, q) for a quote character q
RECURSIVE Unescape(_, _)
Unescape(s, q) ==
    IF s = <<>> THEN <<>>
    ELSE IF Len(s) >= 2 /\ s[1] = Backslash /\ s[2] = q
         THEN <<q>> \o Unescape(SubSeq(s, 3, Len(s)), q)
    ELSE <<Head(s)>> \o Unescape(Tail(s), q)

\* s.replace(/([^\\])>/g, '$1 > ')
RECURSIVE SpaceRedirect(_)
SpaceRedirect(s) ==
    IF s = <<>> THEN <<>>
    ELSE IF Len(s) >= 2 /\ s[1] # Backslash /\ s[2] = ">"
         THEN <<s[1], " ", ">", " ">> \o SpaceRedirect(SubSeq(s, 3, Len(s)))
    ELSE <<Head(s)>> \o SpaceRedirect(Tail(s))

\* s.split('\n')
RECURSIVE SplitLines(_)
SplitLines(s) ==
    LET nl == { i \in 1..Len(s) : s[i] = "\n" }
    IN  IF nl = {} THEN <<s>>
        ELSE LET first == CHOOSE i \in nl : \A j \in nl : i <= j
             IN  <<SubSeq(s, 1, first - 1)>> \o SplitLines(SubSeq(s, first + 1, Len(s)))

\* lines.map(line => line.trim()).filter(line => line.length > 0).join('; ')
RECURSIVE JoinTrimmed(_)
JoinTrimmed(lines) ==
    IF lines = <<>> THEN <<>>
    ELSE LET line == Trim(Head(lines))
             rest == JoinTrimmed(Tail(lines))
         IN  IF line = <<>> THEN rest
             ELSE IF rest = <<>> THEN line
             ELSE line \o <<";", " ">> \o rest

\* commandToExecute of processTasks, which prepares cmd.command before it
\* hands it to executeCommandInProcess
PreNormalize(command) ==
    LET parsed == IF command # <<>> /\ Head(command) \in {Quote, Apostrophe}
                     /\ JsonParse(command).ok
                  THEN JsonParse(command).value ELSE command
        unescaped == IF Contains(parsed, Backslash)
                     THEN Unescape(Unescape(parsed, Quote), Apostrophe)
                     ELSE parsed
    IN  IF StartsWith(unescaped, <<"e", "c", "h", "o">>) /\ Contains(unescaped, ">")
        THEN SpaceRedirect(unescaped) ELSE unescaped

\* processedCommand of executeCommandInProcess
Normalize(command) ==
    LET parsed == IF command # <<>> /\ Head(command) \in {Quote, Apostrophe}
                     /\ JsonParse(command).ok
                  THEN JsonParse(command).value ELSE command
        unescaped == IF Contains(parsed, Backslash)
                     THEN Unescape(Unescape(parsed, Quote), Apostrophe)
                     ELSE parsed
        spaced == IF StartsWith(unescaped, <<"e", "c", "h", "o">>)
                     /\ Contains(unescaped, ">")
                  THEN SpaceRedirect(unescaped) ELSE unescaped
    IN  IF Contains(spaced, "\n") THEN JoinTrimmed(SplitLines(spaced)) ELSE spaced

\* what proc.write receives
Compose(command) == Normalize(command) \o <<";", " ", "p", "w", "d", "\n">>

\* a write that flags the id and nudges the scheduler before it fails
executeCommandInProcess_FlagsUnknown(s, pid, command) ==
    IF pid \notin DOMAIN s.rp
    THEN scheduleNextHeartbeat([s EXCEPT !.threw = TRUE,
                                         !.pce = MapSet(@, pid, TRUE)],
                               COMMAND_RESPONSE_DELAY)
    ELSE
        LET s1 == [s EXCEPT !.wr = Compose(command),
                            !.rp[pid]._expectPwd = TRUE,
                            !.pce = MapSet(@, pid, TRUE),
                            !.owed = @ \cup {pid}]
        IN  scheduleNextHeartbeat(s1, COMMAND_RESPONSE_DELAY)

executeCommandInProcess(s, pid, command) ==
    IF pid \notin DOMAIN s.rp THEN [s EXCEPT !.threw = TRUE]
    ELSE
        LET s1 == [s EXCEPT !.wr = Compose(command),
                            !.rp[pid]._expectPwd = TRUE,
                            !.pce = MapSet(@, pid, TRUE),
                            !.owed = @ \cup {pid}]
        IN  scheduleNextHeartbeat(s1, COMMAND_RESPONSE_DELAY)

\* killed is the return value
killProcess(s, pid) ==
    IF pid \notin DOMAIN s.rp THEN [s |-> s, killed |-> FALSE]
    ELSE
        LET s1 == [s EXCEPT !.rp = MapDelete(@, pid),
                            !.pce = MapDelete(@, pid),
                            !.buf = MapDelete(@, pid)]
            s2 == PushDeath(s1, pid)
            s3 == scheduleNextHeartbeat(s2, Null)
        IN  [s |-> NoteDeath(s3, pid), killed |-> TRUE]

\* a liveness test that takes every shell for dead
confirmProcessAlive_Never(s, pid) == FALSE

\* a liveness test that takes every shell for alive
confirmProcessAlive_Always(s, pid) == TRUE

confirmProcessAlive(s, pid) == pid \in DOMAIN s.rp

----------------------------------------------------------------------------
(* Task executor *)

RECURSIVE ConfirmDeaths(_, _)
ConfirmDeaths(s, pids) ==
    IF pids = <<>> THEN s
    ELSE LET pid == Head(pids)
             s1 == IF ~confirmProcessAlive(s, pid)
                      /\ ~Includes(s.pcb.process_death, pid)
                   THEN PushDeath(s, pid)
                   ELSE s
         IN  CHOOSE out \in { ConfirmDeaths(next, Tail(pids)) : next \in {s1} } : TRUE

SpawnStep(s, tasks, spawnOk) ==
    IF s.threw \/ tasks.if_require_new_process # 1 THEN s
    ELSE LET newPid == s.np
             s1 == createNewProcess(s, spawnOk)
         IN  IF s1.threw THEN s1
             ELSE [s1 EXCEPT !.pcb.process_created = newPid]

RECURSIVE ExecCommands(_, _)
ExecCommands(s, cmds) ==
    IF s.threw \/ cmds = <<>> THEN s
    ELSE LET cmd == Head(cmds)
             s1 == IF cmd.PID # Null /\ cmd.command # <<>>
                   THEN LET s2 == executeCommandInProcess(s, cmd.PID,
                                                          PreNormalize(cmd.command))
                        IN  IF s2.threw THEN s2
                            ELSE [s2 EXCEPT !.commandExecuted = TRUE]
                   ELSE s
         IN  CHOOSE out \in { ExecCommands(next, Tail(cmds)) : next \in {s1} } : TRUE

RECURSIVE KillAll(_, _)
KillAll(s, pids) ==
    IF s.threw \/ pids = <<>> THEN s
    ELSE LET pid == Head(pids)
             r == killProcess(s, pid)
             s1 == IF r.killed /\ ~Includes(r.s.pcb.process_death, pid)
                   THEN PushDeath(r.s, pid)
                   ELSE r.s
         IN  CHOOSE out \in { KillAll(next, Tail(pids)) : next \in {s1} } : TRUE

\* a flag reset that also empties the buffer of each confirmed pid
ResetConfirmed_ClearsRing(s, confirmed) ==
    [s EXCEPT !.pce = [p \in DOMAIN @ |->
                          IF p \in confirmed /\ p \in DOMAIN s.rp THEN FALSE ELSE @[p]],
              !.buf = [p \in DOMAIN @ |->
                          IF p \in confirmed /\ p \in DOMAIN s.rp THEN <<>> ELSE @[p]]]

\* processCommandExecuted.set(pid, false) for the confirmed pids still in the registry
ResetConfirmed(s, confirmed) ==
    [s EXCEPT !.pce = [p \in DOMAIN @ |->
                          IF p \in confirmed /\ p \in DOMAIN s.rp THEN FALSE ELSE @[p]]]

ConfirmStep(s, confirmed) ==
    IF s.threw THEN s ELSE ResetConfirmed(s, confirmed)

\* a last step that resets the ledger after the tasks have run
HintStep_ResetsLedger(s) ==
    LET s1 == IF ~s.threw /\ s.commandExecuted
              THEN scheduleNextHeartbeat(s, COMMAND_RESPONSE_DELAY)
              ELSE s
    IN  [s1 EXCEPT !.pcb = EmptyCallbacks]

HintStep(s) ==
    IF ~s.threw /\ s.commandExecuted
    THEN scheduleNextHeartbeat(s, COMMAND_RESPONSE_DELAY)
    ELSE s

\* a try block that runs the kills before the commands
processTasks_KillsFirst(s, tasks, confirmed, spawnOk) ==
    CHOOSE out \in
        { HintStep(s5) :
            s5 \in { ConfirmStep(s4, confirmed) :
            s4 \in { ExecCommands(s3, tasks.command) :
            s3 \in { KillAll(s2, tasks.kill_process) :
            s2 \in { SpawnStep(s1, tasks, spawnOk) :
            s1 \in { ConfirmDeaths(s, tasks.confirm_process_death) } } } } } } :
        TRUE

\* the try block of processTasks; the catch only logs.  The loops and the
\* steps bind each intermediate state before the next one reads it.
\* (s1 .. s5 are the states after the five steps, in the order of the code)
processTasks(s, tasks, confirmed, spawnOk) ==
    CHOOSE out \in
        { HintStep(s5) :
            s5 \in { ConfirmStep(s4, confirmed) :
            s4 \in { KillAll(s3, tasks.kill_process) :
            s3 \in { ExecCommands(s2, tasks.command) :
            s2 \in { SpawnStep(s1, tasks, spawnOk) :
            s1 \in { ConfirmDeaths(s, tasks.confirm_process_death) } } } } } } :
        TRUE

----------------------------------------------------------------------------
(* Heartbeat engine *)

NoPayload == [process_output |-> EmptyMap, callback |-> EmptyCallbacks]

NoTasks ==
    [present |-> FALSE, confirm_process_death |-> <<>>, if_require_new_process |-> 0,
     command |-> <<>>, kill_process |-> <<>>]

NoResponse ==
    [tasks |-> NoTasks, command_executed_confirmed |-> {},
     process_output_update_succeed |-> {}]

\* `${username}@${hostname}:${workingDir}# ` for user u on host h
PromptString(workingDir) == <<"u", "@", "h", ":">> \o workingDir \o <<"#", " ">>

\* a status that looks at the output before it looks at the command flag
DeriveStatus_OutputFirst(hasPid, if_command_executed, hasRecentOutput) ==
    IF ~hasPid THEN "terminated"
    ELSE IF hasRecentOutput THEN "active"
    ELSE IF if_command_executed = 1 THEN "executing"
    ELSE "idle"

\* the status of an entry; hasPid is the test proc && proc.pid
DeriveStatus(hasPid, if_command_executed, hasRecentOutput) ==
    IF ~hasPid THEN "terminated"
    ELSE IF if_command_executed = 1 THEN "executing"
    ELSE IF hasRecentOutput THEN "active"
    ELSE "idle"

\* a snapshot that walks the output buffers instead of the registry
prepareHeartbeatData_FromBuffers(s, recent) ==
    [process_output |->
        [pid \in DOMAIN s.buf |->
            [temp |-> s.buf[pid],
             cwd |-> IF pid \in DOMAIN s.rp THEN s.rp[pid].workingDirectory ELSE Cwd0,
             if_command_executed |->
                 IF pid \in DOMAIN s.pce /\ s.pce[pid] THEN 1 ELSE 0,
             status |-> "idle",
             recent |-> pid \in recent]],
     callback |-> s.pcb]

\* recent: the shells with Date.now() - _lastOutputTime < 5000 when the
\* payload is built; the field recent of an entry records it and is not part
\* of the request body
prepareHeartbeatData(s, recent) ==
    [process_output |->
        [pid \in DOMAIN s.rp |->
            LET if_command_executed ==
                    IF pid \in DOMAIN s.pce /\ s.pce[pid] THEN 1 ELSE 0
                hasRecentOutput ==
                    /\ pid \in DOMAIN s.buf
                    /\ Len(s.buf[pid]) > 0
                    /\ pid \in recent
            IN  [temp |-> IF pid \in DOMAIN s.buf THEN s.buf[pid] ELSE <<>>,
                 cwd |-> PromptString(s.rp[pid].workingDirectory),
                 if_command_executed |-> if_command_executed,
                 status |-> DeriveStatus(pid \in DOMAIN s.rp, if_command_executed,
                                         hasRecentOutput),
                 recent |-> pid \in recent]],
     callback |-> s.pcb]

SeqsUpTo(S, n) == UNION { [1..k -> S] : k \in 0..n }

CommandEntries == [PID : Pids \cup {UnknownPid}, command : Commands]

TaskBatches ==
    { t \in [present : {TRUE},
             confirm_process_death : SeqsUpTo(Pids, 1),
             if_require_new_process : {0, 1},
             command : SeqsUpTo(CommandEntries, MaxTaskItems),
             kill_process : SeqsUpTo(Pids, 1)] :
        Len(t.confirm_process_death) + t.if_require_new_process
          + Len(t.command) + Len(t.kill_process) <= MaxTaskItems }

\* response.data.callback of a statusCode 1 response the server can send when
\* the pids below np are the ones the agent has ever announced
Acks(np) ==
    [command_executed_confirmed : SUBSET (1..(np - 1)),
     process_output_update_succeed : SUBSET (1..(np - 1))]

\* response.data.tasks of such a response; NoTasks when the field is absent
Batches(np) ==
    { t \in TaskBatches \cup {NoTasks} :
        Range(t.confirm_process_death) \subseteq 1..(np - 1) }

----------------------------------------------------------------------------
(* Initial state: the module has been loaded, sendHeartbeat() not yet called *)

\* no call made yet on the registry module
NoCall == [op |-> "none", pid |-> Null, text |-> <<>>, ok |-> TRUE]

\* no shell behind a PTY yet
NoTty == [cwd |-> <<>>, pwds |-> <<>>]

Init ==
    /\ runningProcesses = EmptyMap
    /\ processOutputBuffer = EmptyMap
    /\ processCommandExecuted = EmptyMap
    /\ pendingCallbacks = EmptyCallbacks
    /\ heartbeatInProgress = FALSE
    /\ processingTasks = FALSE
    /\ heartbeatTimer = Null
    /\ timers = <<>>
    /\ lastHeartbeatStatus = "Not yet sent"
    /\ pc = "boot"
    /\ payload = NoPayload
    /\ response = NoResponse
    /\ nextPid = 1
    /\ ptyAlive = {}
    /\ configured \in BOOLEAN
    /\ inFlight = 0
    /\ sentCallback = EmptyCallbacks
    /\ owed = {}
    /\ diedInFlight = {}
    /\ mustReport = {}
    /\ reported = {}
    /\ unshipped = {}
    /\ lastResponseCode = Null
    /\ spawned = Null
    /\ call = NoCall
    /\ reg = Cur
    /\ tty = NoTty

\* a tail of sendHeartbeat that schedules nothing
Finish_NoSchedule(s, status, code) ==
    /\ lastHeartbeatStatus' = status
    /\ lastResponseCode' = code
    /\ Store(s)
    /\ heartbeatInProgress' = FALSE
    /\ pc' = "idle"
    /\ inFlight' = inFlight - 1
    /\ response' = NoResponse

\* the tail of sendHeartbeat: record the status, schedule, release the flag
Finish(s, status, code) ==
    /\ lastHeartbeatStatus' = status
    /\ lastResponseCode' = code
    /\ Store(scheduleNextHeartbeat(s, Null))
    /\ heartbeatInProgress' = FALSE
    /\ pc' = "idle"
    /\ inFlight' = inFlight - 1
    /\ response' = NoResponse

\* a sendHeartbeat() whose not-configured return keeps the in-progress flag
sendHeartbeat_HoldsFlag(s) ==
    IF Busy(heartbeatInProgress, processingTasks)
    THEN /\ Store(scheduleNextHeartbeat(s, RETRY_DELAY))
         /\ UNCHANGED <<heartbeatInProgress, processingTasks, lastHeartbeatStatus, lastResponseCode,
                        pc, response, configured, inFlight, sentCallback>>
    ELSE IF ~configured
    THEN /\ lastHeartbeatStatus' = "Failed"
         /\ lastResponseCode' = Null
         /\ heartbeatInProgress' = TRUE
         /\ Store(scheduleNextHeartbeat(s, Null))
         /\ pc' = "idle"
         /\ UNCHANGED <<processingTasks, response, configured, inFlight, sentCallback>>
    ELSE /\ heartbeatInProgress' = TRUE
         /\ \E recent \in SUBSET DOMAIN s.rp :
                Store([s EXCEPT !.pl = prepareHeartbeatData(s, recent),
                                !.died = {},
                                !.unsh = {},
                                !.sp = Null])
         /\ pc' = "telemetry"
         /\ inFlight' = inFlight + 1
         /\ UNCHANGED <<processingTasks, lastHeartbeatStatus, lastResponseCode, response, configured,
                        sentCallback>>

\* sendHeartbeat() up to its first await, called in state s
sendHeartbeat(s) ==
    IF Busy(heartbeatInProgress, processingTasks)
    THEN /\ Store(scheduleNextHeartbeat(s, RETRY_DELAY))
         /\ UNCHANGED <<heartbeatInProgress, processingTasks, lastHeartbeatStatus, lastResponseCode,
                        pc, response, configured, inFlight, sentCallback>>
    ELSE IF ~configured
    THEN /\ lastHeartbeatStatus' = "Failed"
         /\ lastResponseCode' = Null
         /\ heartbeatInProgress' = FALSE
         /\ Store(scheduleNextHeartbeat(s, Null))
         /\ pc' = "idle"
         /\ UNCHANGED <<processingTasks, response, configured, inFlight, sentCallback>>
    ELSE /\ heartbeatInProgress' = TRUE
         /\ \E recent \in SUBSET DOMAIN s.rp :
                Store([s EXCEPT !.pl = prepareHeartbeatData(s, recent),
                                !.died = {},
                                !.unsh = {},
                                !.sp = Null])
         /\ pc' = "telemetry"
         /\ inFlight' = inFlight + 1
         /\ UNCHANGED <<processingTasks, lastHeartbeatStatus, lastResponseCode, response, configured,
                        sentCallback>>

\* a main logic that only arms the timer and sends nothing at startup
Boot_WaitsInterval ==
    /\ pc = "boot"
    /\ Store(scheduleNextHeartbeat(Cur, Null))
    /\ pc' = "idle"
    /\ UNCHANGED <<heartbeatInProgress, processingTasks, lastHeartbeatStatus,
                   lastResponseCode, response, configured, inFlight, sentCallback>>

\* the initial sendHeartbeat() of the main logic
Boot ==
    /\ pc = "boot"
    /\ sendHeartbeat(Cur)

\* the setTimeout callback armed by scheduleNextHeartbeat
TimerFire ==
    /\ pc \notin {"boot", "acked", "tasks"}
    /\ \E i \in 1..Len(timers) :
        LET s == [Cur EXCEPT !.tm = SubSeq(@, 1, i - 1) \o SubSeq(@, i + 1, Len(@)),
                             !.ht = IF i = Len(timers) THEN Null ELSE @]
        IN  IF ~Busy(heartbeatInProgress, processingTasks)
            THEN sendHeartbeat(s)
            ELSE /\ Store(scheduleNextHeartbeat(s, RETRY_DELAY))
                 /\ UNCHANGED <<heartbeatInProgress, processingTasks,
                                lastHeartbeatStatus, lastResponseCode, pc, response, configured,
                                inFlight, sentCallback>>

\* a data event of a PTY
Output ==
    /\ pc \notin {"boot", "acked", "tasks"}
    /\ \E pid \in ptyAlive, chunk \in Chunks :
        Store(handleProcessOutput(Cur, pid, chunk))
    /\ UNCHANGED <<heartbeatInProgress, processingTasks, lastHeartbeatStatus, lastResponseCode, pc,
                   response, configured, inFlight, sentCallback>>

\* the exit event of a PTY, spontaneous or after kill()
Exit ==
    /\ pc \notin {"boot", "acked", "tasks"}
    /\ \E pid \in ptyAlive :
        Store(onExit([Cur EXCEPT !.alive = @ \ {pid}], pid))
    /\ UNCHANGED <<heartbeatInProgress, processingTasks, lastHeartbeatStatus, lastResponseCode, pc,
                   response, configured, inFlight, sentCallback>>

\* telemetry has been collected; axios.post serializes the payload
Post ==
    /\ pc = "telemetry"
    /\ pc' = "inflight"
    /\ sentCallback' = payload.callback
    /\ payload' = NoPayload
    /\ UNCHANGED <<runningProcesses, processOutputBuffer, processCommandExecuted,
                   pendingCallbacks, heartbeatInProgress, processingTasks,
                   heartbeatTimer, timers, lastHeartbeatStatus, lastResponseCode, response,
                   nextPid, ptyAlive, configured, inFlight, owed,
                   diedInFlight, mustReport, reported, unshipped, spawned,
                   call, reg, tty>>

\* acknowledgement handling that leaves the output buffers alone
ApplyAcks_KeepsRings(s, r) ==
    LET s1 == ResetConfirmed(s, r.command_executed_confirmed)
        shippedDeaths == Range(sentCallback.process_death)
    IN  [s1 EXCEPT !.pcb = EmptyCallbacks,
                   !.died = {},
                   !.owed = @ \ (r.command_executed_confirmed \cap DOMAIN s.rp),
                   !.rep = @ \cup (s.must \cap shippedDeaths),
                   !.must = @ \ shippedDeaths]

\* the acknowledgements of a statusCode 1 response and the ledger reset
ApplyAcks(s, r) ==
    LET s1 == ResetConfirmed(s, r.command_executed_confirmed)
        cleared == r.process_output_update_succeed \cap DOMAIN s1.rp
        shippedDeaths == Range(sentCallback.process_death)
    IN  [s1 EXCEPT !.buf = [p \in DOMAIN @ \cup cleared |->
                               IF p \in cleared THEN <<>> ELSE @[p]],
                   !.unsh = @ \ cleared,
                   !.pcb = EmptyCallbacks,
                   !.died = {},
                   !.owed = @ \ (r.command_executed_confirmed \cap DOMAIN s.rp),
                   !.rep = @ \cup (s.must \cap shippedDeaths),
                   !.must = @ \ shippedDeaths]

\* a sendHeartbeat that releases its flag before it awaits processTasks
EnterTasks_Releases(hip) == [heartbeatInProgress |-> FALSE, processingTasks |-> TRUE]

\* the two flags while sendHeartbeat awaits processTasks: processTasks sets
\* its own flag, the flag of sendHeartbeat is released in its finally block
EnterTasks(hip) == [heartbeatInProgress |-> hip, processingTasks |-> TRUE]

\* the POST resolves with statusCode 1: the acknowledgements are applied and
\* the ledger is reset
ResponseOk ==
    /\ pc = "inflight"
    /\ \E r \in Acks(nextPid) :
        /\ Store(ApplyAcks(Cur, r))
        /\ response' = [tasks |-> NoTasks,
                        command_executed_confirmed |-> r.command_executed_confirmed,
                        process_output_update_succeed |->
                            r.process_output_update_succeed]
    /\ pc' = "acked"
    /\ sentCallback' = EmptyCallbacks
    /\ UNCHANGED <<heartbeatInProgress, processingTasks, lastHeartbeatStatus, lastResponseCode,
                   configured, inFlight>>

\* the same turn goes on: if (response.data.tasks) processTasks is entered,
\* otherwise the tail of sendHeartbeat runs; process_output_update_succeed
\* is not read again, response keeps what processTasks is passed
CheckTasks ==
    /\ pc = "acked"
    /\ \E t \in Batches(nextPid) :
        IF t.present
        THEN /\ response' = [response EXCEPT !.tasks = t,
                                             !.process_output_update_succeed = {}]
             /\ pc' = "tasks"
             /\ processingTasks' = EnterTasks(heartbeatInProgress).processingTasks
             /\ heartbeatInProgress' =
                    EnterTasks(heartbeatInProgress).heartbeatInProgress
             /\ Store(Cur)
             /\ UNCHANGED <<lastHeartbeatStatus, lastResponseCode, inFlight>>
        ELSE /\ Finish(Cur, "Success", OkCode)
             /\ UNCHANGED processingTasks
    /\ UNCHANGED <<configured, sentCallback>>

\* processTasks runs to its end, then the tail of sendHeartbeat
ProcessTasks ==
    /\ pc = "tasks"
    /\ \E spawnOk \in BOOLEAN :
        /\ spawnOk \/ response.tasks.if_require_new_process = 1
        /\ spawnOk /\ response.tasks.if_require_new_process = 1 => nextPid <= MaxPid
        /\ \E done \in {processTasks(Cur, response.tasks,
                                      response.command_executed_confirmed,
                                      spawnOk)} :
               Finish(done, "Success", OkCode)
    /\ processingTasks' = FALSE
    /\ UNCHANGED <<configured, sentCallback>>

\* a statusCode # 1 branch that applies the acknowledgements all the same
ResponseBad_AppliesAcks ==
    /\ pc = "inflight"
    /\ \E code \in BadCodes, r \in Acks(nextPid) :
        Finish(ApplyAcks([Cur EXCEPT !.died = {}], r), "Success", code)
    /\ sentCallback' = EmptyCallbacks
    /\ UNCHANGED <<processingTasks, configured>>

\* the POST resolves with a body whose statusCode is not 1: whatever callback
\* it carries is not read
ResponseBad ==
    /\ pc = "inflight"
    /\ \E code \in BadCodes, r \in Acks(nextPid) :
        Finish([Cur EXCEPT !.died = {}], "Success", code)
    /\ sentCallback' = EmptyCallbacks
    /\ UNCHANGED <<processingTasks, configured>>

\* a catch block that also drops the pending callbacks
PostFail_ResetsLedger ==
    /\ pc = "inflight"
    /\ Finish([Cur EXCEPT !.died = {}, !.pcb = EmptyCallbacks], "Failed", Null)
    /\ UNCHANGED <<processingTasks, configured, sentCallback>>

\* the POST rejects: transport error or timeout
PostFail ==
    /\ pc = "inflight"
    /\ Finish([Cur EXCEPT !.died = {}], "Failed", Null)
    /\ UNCHANGED <<processingTasks, configured, sentCallback>>

Next ==
    \/ Boot
    \/ TimerFire
    \/ Output
    \/ Exit
    \/ Post
    \/ ResponseOk
    \/ CheckTasks
    \/ ProcessTasks
    \/ ResponseBad
    \/ PostFail

Spec == Init /\ [][Next]_vars

\* the steps of sendHeartbeat itself: its start at boot, its continuations
\* and the settling of its POST
HeartbeatStep ==
    \/ Boot
    \/ Post
    \/ ResponseOk
    \/ ResponseBad
    \/ PostFail
    \/ CheckTasks
    \/ ProcessTasks

\* The event loop runs every callback that is ready, a due timer or a
\* continuation of sendHeartbeat, and every POST settles.
FairSpec ==
    /\ Spec
    /\ WF_vars(TimerFire)
    /\ WF_vars(HeartbeatStep)

\* POST /process/create of the local HTTP server: createNewProcess() in a
\* turn of its own; a failed spawn is answered with status 500
RouteCreate ==
    /\ pc \notin {"boot", "acked", "tasks"}
    /\ \E spawnOk \in BOOLEAN :
        /\ spawnOk => nextPid <= MaxPid
        /\ Store([createNewProcess(Cur, spawnOk) EXCEPT !.threw = FALSE])
    /\ UNCHANGED <<heartbeatInProgress, processingTasks, lastHeartbeatStatus,
                   lastResponseCode, pc, response, configured, inFlight,
                   sentCallback>>

\* POST /process/:pid/kill: killProcess(pid) for whatever pid the URL names
RouteKill ==
    /\ pc \notin {"boot", "acked", "tasks"}
    /\ \E pid \in Pids \cup {UnknownPid} :
        Store(killProcess(Cur, pid).s)
    /\ UNCHANGED <<heartbeatInProgress, processingTasks, lastHeartbeatStatus,
                   lastResponseCode, pc, response, configured, inFlight,
                   sentCallback>>

\* POST /process/:pid/execute with a command in the body:
\* executeCommandInProcess(pid, command); an unknown pid is answered with 500
RouteExecute ==
    /\ pc \notin {"boot", "acked", "tasks"}
    /\ \E pid \in Pids \cup {UnknownPid}, command \in Commands :
        Store([executeCommandInProcess(Cur, pid, command) EXCEPT !.threw = FALSE])
    /\ UNCHANGED <<heartbeatInProgress, processingTasks, lastHeartbeatStatus,
                   lastResponseCode, pc, response, configured, inFlight,
                   sentCallback>>

\* POST /debug/reset-command-status/:pid: processCommandExecuted.set(pid, false)
\* for a pid of the registry, 404 otherwise
RouteReset ==
    /\ pc \notin {"boot", "acked", "tasks"}
    /\ \E pid \in Pids \cup {UnknownPid} :
        Store(IF pid \in DOMAIN runningProcesses
              THEN [Cur EXCEPT !.pce = MapSet(@, pid, FALSE)]
              ELSE Cur)
    /\ UNCHANGED <<heartbeatInProgress, processingTasks, lastHeartbeatStatus,
                   lastResponseCode, pc, response, configured, inFlight,
                   sentCallback>>

\* a request of the local HTTP server that reaches a handler which writes;
\* GET /status, GET /process/:pid/output and GET /debug/command-status only
\* read and are no step of the model
RouteRequest ==
    \/ RouteCreate
    \/ RouteKill
    \/ RouteExecute
    \/ RouteReset

----------------------------------------------------------------------------
(* The registry module driven by itself, one exported function a step, on   *)
(* the state reg, with the scheduler hooks installed as the agent installs  *)
(* them.  One shell is spawned; tty is the shell program behind its PTY.    *)

\* the state a call starts from: what the previous call left in the locals
\* is gone
Enter(s) ==
    [s EXCEPT !.threw = FALSE, !.commandExecuted = FALSE, !.wr = <<>>,
              !.pl = NoPayload]

\* a task batch that asks for a shell and nothing else
SpawnTask == [NoTasks EXCEPT !.present = TRUE, !.if_require_new_process = 1]

\* step 2 of processTasks for a batch that asks for a shell
CallSpawn ==
    /\ \E spawnOk \in BOOLEAN :
        /\ spawnOk => reg.np = 1
        /\ reg' = [SpawnStep(Enter(reg), SpawnTask, spawnOk) EXCEPT !.threw = FALSE]
        /\ call' = [op |-> "spawn", pid |-> reg.np, text |-> <<>>, ok |-> spawnOk]
        /\ tty' = IF spawnOk THEN [cwd |-> Cwd0, pwds |-> <<>>] ELSE tty
    /\ UNCHANGED agentVars

RingAlphabet == {"a", "b", "c"}

\* output of a program in the shell, up to three units longer than the cap
RingChunks == UNION { [1..k -> RingAlphabet] : k \in 1..(MAX_BUFFER_SIZE + 3) }

\* a data event with output of a program
CallOutput ==
    /\ \E pid \in reg.alive, chunk \in RingChunks :
        /\ reg' = handleProcessOutput(Enter(reg), pid, chunk)
        /\ call' = [op |-> "output", pid |-> pid, text |-> chunk, ok |-> TRUE]
    /\ UNCHANGED <<agentVars, tty>>

MaxPendingPwd == 2     \* commands written whose pwd output has not arrived

\* cmd.command of the entries the harness sends: plain, cd, multi-line, with
\* a redirection, quoted as JSON, in apostrophes, with escaped quotes
ShellCommands ==
    { <<"l", "s">>,
      <<"c", "d", " ", "/", "t">>,
      <<"c", "d", " ", "/", "u">>,
      <<"l", "s", "\n", "p", "w", "d">>,
      <<" ", "l", "s", " ", "\n", "\n", " ", "p", "w", "d", " ">>,
      <<"e", "c", "h", "o", " ", "a", ">", "b">>,
      <<"\"", "l", "s", "\"">>,
      <<"'", "l", "s", "'">>,
      <<"e", "c", "h", "o", " ", "\\", "\"", "a", "\\", "\"">>,
      <<"\"", "l", "\\", "n", "s", "\"">> }

\* the directory of the shell once it has run the text written to it
CdTarget(dir, written) ==
    IF StartsWith(written, <<"c", "d", " ">>)
    THEN LET semi == { i \in 1..Len(written) : written[i] = ";" }
             end == IF semi = {} THEN Len(written) + 1
                    ELSE CHOOSE i \in semi : \A j \in semi : i <= j
         IN  SubSeq(written, 4, end - 1)
    ELSE dir

\* the chunks in which the PTY can deliver the line pwd prints for dir: the
\* line alone, ended by \r\n, after a line of other output, or followed by
\* the prompt of the shell
PwdChunks(dir) ==
    { dir \o <<"\n">>,
      dir \o <<"\r", "\n">>,
      <<"x", "\n">> \o dir \o <<"\n">>,
      dir \o <<"\n", "$", " ">> }

\* step 3 of processTasks for a batch with one command entry; the shell runs
\* the text and owes the line of its appended pwd
CallCommand ==
    /\ Len(tty.pwds) < MaxPendingPwd
    /\ \E pid \in DOMAIN reg.rp \cup {UnknownPid}, command \in ShellCommands :
        \E done \in {ExecCommands(Enter(reg), <<[PID |-> pid, command |-> command]>>)} :
            /\ reg' = [done EXCEPT !.threw = FALSE]
            /\ call' = [op |-> "command", pid |-> pid, text |-> command,
                        ok |-> ~done.threw]
            /\ tty' = IF done.threw THEN tty
                      ELSE [cwd |-> CdTarget(tty.cwd, done.wr),
                            pwds |-> Append(tty.pwds, CdTarget(tty.cwd, done.wr))]
    /\ UNCHANGED agentVars

\* the data event that carries the line of the oldest pending pwd
CallPwd ==
    /\ tty.pwds # <<>>
    /\ \E pid \in DOMAIN reg.rp, chunk \in PwdChunks(Head(tty.pwds)) :
        /\ reg' = handleProcessOutput(Enter(reg), pid, chunk)
        /\ call' = [op |-> "pwd", pid |-> pid, text |-> chunk, ok |-> TRUE]
    /\ tty' = [tty EXCEPT !.pwds = Tail(@)]
    /\ UNCHANGED agentVars

\* step 5 of processTasks for a response that confirms the command of pid
CallConfirm ==
    /\ \E pid \in DOMAIN reg.rp :
        /\ reg' = ConfirmStep(Enter(reg), {pid})
        /\ call' = [op |-> "confirm", pid |-> pid, text |-> <<>>, ok |-> TRUE]
    /\ UNCHANGED <<agentVars, tty>>

\* prepareHeartbeatData(): the payload is what the call returns
CallSnapshot ==
    /\ \E recent \in SUBSET DOMAIN reg.rp :
        /\ reg' = [Enter(reg) EXCEPT !.pl = prepareHeartbeatData(Enter(reg), recent)]
        /\ call' = [op |-> "snapshot", pid |-> Null, text |-> <<>>, ok |-> TRUE]
    /\ UNCHANGED <<agentVars, tty>>

NextShell ==
    \/ CallSpawn
    \/ CallCommand
    \/ CallPwd
    \/ CallConfirm
    \/ CallSnapshot

\* a shell is spawned, commands are written to it, the lines of their pwd
\* arrive, commands are confirmed and payloads are built
SpecShell == Init /\ [][NextShell]_vars

\* the ids a response can name: those of the shells and one of no shell
Ids == Pids \cup {UnknownPid}

IdLists == UNION { [1..k -> Ids] : k \in 1..MaxTaskItems }

\* step 1 of processTasks for a batch that lists ids in confirm_process_death
CallConfirmDeaths ==
    /\ \E ids \in IdLists :
        /\ reg' = ConfirmDeaths(Enter(reg), ids)
        /\ call' = [op |-> "confirm_death", pid |-> Null, text |-> ids, ok |-> TRUE]
    /\ UNCHANGED <<agentVars, tty>>

\* step 4 of processTasks for a batch with one id in kill_process
CallKill ==
    /\ \E pid \in Ids :
        /\ reg' = KillAll(Enter(reg), <<pid>>)
        /\ call' = [op |-> "kill", pid |-> pid, text |-> <<>>,
                    ok |-> pid \in DOMAIN reg.rp]
    /\ UNCHANGED <<agentVars, tty>>

\* the exit event of a PTY, spontaneous or after kill()
CallExit ==
    /\ \E pid \in reg.alive :
        /\ reg' = onExit([Enter(reg) EXCEPT !.alive = @ \ {pid}], pid)
        /\ call' = [op |-> "exit", pid |-> pid, text |-> <<>>, ok |-> TRUE]
    /\ UNCHANGED <<agentVars, tty>>

\* the batches of the harness with the acknowledgements of their response:
\* for every id, the pairs of neighbouring steps that name it, and all five
StepBatches ==
    UNION { { [t |-> [NoTasks EXCEPT !.present = TRUE,
                                     !.confirm_process_death = <<x>>,
                                     !.if_require_new_process = 1],
               acks |-> {}],
              [t |-> [NoTasks EXCEPT !.present = TRUE,
                                     !.if_require_new_process = 1,
                                     !.command = <<[PID |-> x, command |-> <<"l", "s">>]>>],
               acks |-> {}],
              [t |-> [NoTasks EXCEPT !.present = TRUE,
                                     !.command = <<[PID |-> x, command |-> <<"l", "s">>]>>,
                                     !.kill_process = <<x>>],
               acks |-> {}],
              [t |-> [NoTasks EXCEPT !.present = TRUE,
                                     !.command = <<[PID |-> x, command |-> <<"l", "s">>]>>],
               acks |-> {x}],
              [t |-> [NoTasks EXCEPT !.present = TRUE,
                                     !.kill_process = <<x>>],
               acks |-> {x}],
              [t |-> [present |-> TRUE,
                      confirm_process_death |-> <<x>>,
                      if_require_new_process |-> 1,
                      command |-> <<[PID |-> x, command |-> <<"l", "s">>]>>,
                      kill_process |-> <<x>>],
               acks |-> {x}] } : x \in Ids }

\* processTasks(tasks, callback) for one batch and the acknowledgements of
\* the response that carried it
CallBatch ==
    /\ \E b \in StepBatches, spawnOk \in BOOLEAN :
        /\ spawnOk \/ b.t.if_require_new_process = 1
        /\ spawnOk /\ b.t.if_require_new_process = 1 => reg.np <= MaxPid
        /\ \E done \in {processTasks(Enter(reg), b.t, b.acks, spawnOk)} :
            /\ reg' = [done EXCEPT !.threw = FALSE]
            /\ call' = [op |-> "batch", pid |-> Null, text |-> <<>>,
                        ok |-> ~done.threw, tasks |-> b.t, acks |-> b.acks,
                        spawnOk |-> spawnOk]
    /\ UNCHANGED <<agentVars, tty>>

NextBatch ==
    \/ CallSpawn
    \/ CallBatch
    \/ CallExit

\* whole batches on the registry, between spawns and exits
SpecBatch == Init /\ [][NextBatch]_vars

\* executeCommandInProcess(pid, command); ok = FALSE when it throws
CallWrite ==
    /\ \E pid \in Ids, command \in Commands :
        \E done \in {executeCommandInProcess(Enter(reg), pid, command)} :
            /\ reg' = [done EXCEPT !.threw = FALSE]
            /\ call' = [op |-> "write", pid |-> pid, text |-> command,
                        ok |-> ~done.threw]
    /\ UNCHANGED <<agentVars, tty>>

\* what a PTY delivers in one data event: plain output, a path alone, a path
\* after other output, a path before the prompt, a path among blank lines, a
\* drive path, white space only
DataChunks ==
    { <<"a">>,
      <<"/", "t", "\n">>,
      <<"x", "\n", "/", "u">>,
      <<"/", "t", "\n", "$", " ">>,
      <<"\n", " ", "/", "u", " ", "\r", "\n", " ", "\n">>,
      <<"C", ":", "\\">>,
      <<" ", "\n">> }

\* a data event of a PTY that has not exited, also of one whose shell kill
\* has removed from the registry
CallData ==
    /\ \E pid \in reg.alive, chunk \in DataChunks :
        /\ reg' = handleProcessOutput(Enter(reg), pid, chunk)
        /\ call' = [op |-> "data", pid |-> pid, text |-> chunk, ok |-> TRUE]
    /\ UNCHANGED <<agentVars, tty>>

NextTasks ==
    \/ CallSpawn
    \/ CallConfirmDeaths
    \/ CallKill
    \/ CallExit
    \/ CallWrite
    \/ CallData

\* the registry and the steps of the task executor, one step at a time
SpecTasks == Init /\ [][NextTasks]_vars

NextRing ==
    \/ CallSpawn
    \/ CallOutput

\* a shell is spawned and its output arrives chunk by chunk
SpecRing == Init /\ [][NextRing]_vars

NextRoutes ==
    \/ Next
    \/ RouteCreate
    \/ RouteKill
    \/ RouteExecute
    \/ RouteReset

\* the control loop together with the routes of the local HTTP server
SpecRoutes == Init /\ [][NextRoutes]_vars

NextOffline ==
    \/ Boot
    \/ TimerFire
    \/ Output
    \/ Exit
    \/ Post
    \/ PostFail
    \/ RouteCreate
    \/ RouteKill
    \/ RouteExecute
    \/ RouteReset

\* the agent of a machine the server cannot be reached from: the timer, the
\* PTYs and the local routes act, and every POST fails
SpecOffline == Init /\ [][NextOffline]_vars

----------------------------------------------------------------------------
(* Properties *)

Dead == Range(pendingCallbacks.process_death)

\* C1: every payload built after a command was written to a live shell x
\* reports if_command_executed = 1 for x until a response to a heartbeat sent
\* after the write confirms x, and 0 from then until the next command.
C1_FlagUntilAcknowledged ==
    [][(pc # "telemetry" /\ pc' = "telemetry") =>
          \A x \in DOMAIN payload'.process_output :
              payload'.process_output[x].if_command_executed
                  = (IF x \in owed' THEN 1 ELSE 0)]_vars

\* C2: a shell that died after the payload was built and before the response
\* was applied is still in process_death once the successful response has
\* reset the ledger, hence in the next heartbeat's callback.
C2_DeathInFlightKept ==
    [][(pc = "inflight" /\ pc' # "inflight") =>
          diedInFlight \subseteq Range(pendingCallbacks'.process_death)]_vars

\* C3: every heartbeat that is posted carries in callback.process_death each
\* shell whose kill or exit no successful heartbeat has reported yet, and no
\* shell whose death a successful heartbeat has already reported.
C3_DeathReportedUntilSuccess ==
    [][(pc = "telemetry" /\ pc' = "inflight") =>
          /\ mustReport \subseteq Range(sentCallback'.process_death)
          /\ Range(sentCallback'.process_death) \cap reported = {}]_vars

\* C4: the exit notification of a shell that kill() already removed changes
\* neither the registry nor the ledger.
C4_ExitAfterKillIsNoOp ==
    [][\A p \in Pids :
          (p \in ptyAlive /\ p \notin ptyAlive' /\ p \notin DOMAIN runningProcesses)
              => /\ runningProcesses' = runningProcesses
                 /\ pendingCallbacks' = pendingCallbacks]_vars

\* C5: output is delivered at least once: whenever the buffer of a shell is
\* emptied, every unit it held had been part of the payload of a heartbeat,
\* also the units that arrived after the last payload was built.
C5_OutputAtLeastOnce ==
    [][\A p \in DOMAIN processOutputBuffer \cap DOMAIN processOutputBuffer' :
          (processOutputBuffer[p] # <<>> /\ processOutputBuffer'[p] = <<>>)
              => p \notin unshipped]_vars

\* C6: the ids in the registry and the ids in process_death are disjoint.
C6_RegistryDisjointFromDead ==
    DOMAIN runningProcesses \cap Dead = {}

C6_Witness ==
    /\ Dead # {}
    /\ mustReport # {}
    /\ pc = "idle"

\* C7: at most one heartbeat is in flight, and a timer that fires while a
\* heartbeat or a task batch is running builds no payload, posts nothing,
\* leaves registry and ledger alone and only arms the retry timer.
C7_OneHeartbeatInFlight ==
    [][/\ inFlight' <= 1
       /\ (Busy(heartbeatInProgress, processingTasks) /\ TimerFire) =>
             /\ UNCHANGED <<runningProcesses, processOutputBuffer,
                            processCommandExecuted, pendingCallbacks, payload,
                            sentCallback, pc, heartbeatInProgress,
                            processingTasks, lastHeartbeatStatus, lastResponseCode, inFlight>>
             /\ timers' = <<RETRY_DELAY>>]_vars

C7_Witness ==
    /\ pc = "inflight"
    /\ heartbeatInProgress
    /\ heartbeatTimer = RETRY_DELAY
    /\ timers = <<RETRY_DELAY>>

\* C8 as stated: the two busy flags are never true together.
C8_FlagsExclusive ==
    ~(heartbeatInProgress /\ processingTasks)

\* C8 amended: a task batch runs only inside the heartbeat that carried it;
\* while it runs both flags are true and that heartbeat is the only one.
C8_TasksInsideHeartbeat ==
    /\ processingTasks => (heartbeatInProgress /\ pc = "tasks")
    /\ pc = "tasks" => (processingTasks /\ inFlight = 1)

C8_Witness ==
    /\ pc = "tasks"
    /\ processingTasks
    /\ heartbeatInProgress
    /\ response.tasks.command # <<>>

\* C9: a failing step does not abort the batch: whatever fails, every kill of
\* the batch is applied, every command for a shell in the registry is written
\* and every confirmed flag is reset.
C9_BatchNotAborted ==
    [][pc = "tasks" =>
          /\ \A x \in Range(response.tasks.kill_process) :
                x \notin DOMAIN runningProcesses'
          /\ \A i \in 1..Len(response.tasks.command) :
                LET x == response.tasks.command[i].PID
                IN  (x \in DOMAIN runningProcesses /\ x \in DOMAIN runningProcesses')
                        => x \in owed'
          /\ \A x \in response.command_executed_confirmed :
                x \in DOMAIN runningProcesses' => ~processCommandExecuted'[x]]_vars

\* C10: a rejected POST leaves the ledger as it was and records Failed, and
\* the payload built next carries at least the process_death ids and the
\* process_created of the failed one.
C10_LedgerKeptOnTransportError ==
    [][/\ PostFail =>
             /\ pendingCallbacks' = pendingCallbacks
             /\ lastHeartbeatStatus' = "Failed"
       /\ (pc = "idle" /\ pc' = "telemetry" /\ lastHeartbeatStatus = "Failed") =>
             /\ Range(sentCallback.process_death)
                    \subseteq Range(payload'.callback.process_death)
             /\ payload'.callback.process_created = sentCallback.process_created]_vars

C10_Witness ==
    /\ pc = "telemetry"
    /\ lastHeartbeatStatus = "Failed"
    /\ sentCallback.process_death # <<>>
    /\ sentCallback.process_created # Null
    /\ payload.callback = sentCallback

\* C11: handling a response whose statusCode is not 1 leaves the registry,
\* every command flag, every output buffer, process_death and
\* process_created as they were.
C11_BadResponseIgnored ==
    [][(pc = "inflight" /\ pc' = "idle" /\ lastResponseCode' \in BadCodes) =>
          UNCHANGED <<runningProcesses, processCommandExecuted,
                      processOutputBuffer, pendingCallbacks>>]_vars

C11_Witness ==
    /\ pc = "idle"
    /\ lastResponseCode \in BadCodes
    /\ pendingCallbacks.process_created # Null
    /\ \E p \in DOMAIN runningProcesses :
          processOutputBuffer[p] # <<>> /\ processCommandExecuted[p]

\* C12: after a response whose statusCode is not 1 the recorded status is Failed.
C12_BadResponseRecordedFailed ==
    lastResponseCode \in BadCodes => lastHeartbeatStatus = "Failed"

C14_RingClearedOnlyByAck ==
    [][\A p \in DOMAIN runningProcesses \cap DOMAIN runningProcesses' :
          LET named == /\ pc = "inflight"
                       /\ pc' = "acked"
                       /\ p \in response'.process_output_update_succeed
          IN  /\ named => processOutputBuffer'[p] = <<>>
              /\ (~named /\ pc' # pc) =>
                     processOutputBuffer'[p] = processOutputBuffer[p]
              /\ (processOutputBuffer[p] # <<>> /\ processOutputBuffer'[p] = <<>>)
                     => named]_vars

C14_Witness ==
    /\ pc = "acked"
    /\ \E p \in DOMAIN runningProcesses :
          /\ p \notin response.process_output_update_succeed
          /\ p \in response.command_executed_confirmed
          /\ processOutputBuffer[p] # <<>>

\* C15: the payload built next after a spawn carries in
\* callback.process_created the shell spawned last before it was built.
C15_CreatedIsLastSpawn ==
    [][(pc # "telemetry" /\ pc' = "telemetry" /\ spawned # Null) =>
          payload'.callback.process_created = spawned]_vars

\* C16: a statusCode 1 response resets the ledger before its tasks are read;
\* the batch then leaves in the ledger the shell it spawned, every shell it
\* removed and every confirmed death; nothing removes a ledger entry while
\* the engine is idle, and the payload built next carries the ledger as it is.
C16_TaskEntriesSurviveReset ==
    [][/\ pc' = "acked" => pendingCallbacks' = EmptyCallbacks
       /\ pc = "tasks" =>
             /\ nextPid' # nextPid =>
                    pendingCallbacks'.process_created = nextPid
             /\ \A x \in DOMAIN runningProcesses \ DOMAIN runningProcesses' :
                    x \in Range(pendingCallbacks'.process_death)
             /\ \A x \in Range(response.tasks.confirm_process_death) :
                    x \notin DOMAIN runningProcesses =>
                        x \in Range(pendingCallbacks'.process_death)
       /\ pc = "idle" =>
             /\ Range(pendingCallbacks.process_death)
                    \subseteq Range(pendingCallbacks'.process_death)
             /\ pendingCallbacks'.process_created = pendingCallbacks.process_created
       /\ (pc = "idle" /\ pc' = "telemetry") =>
             payload'.callback = pendingCallbacks']_vars

C16_Witness ==
    /\ pc = "telemetry"
    /\ payload.callback.process_created # Null
    /\ payload.callback.process_death # <<>>
    /\ \E x \in ptyAlive : x \notin DOMAIN runningProcesses

\* C17: when the task batch of a successful heartbeat has written a command,
\* the timer pending once sendHeartbeat has returned is the
\* COMMAND_RESPONSE_DELAY one.
C17_CommandHintHonoured ==
    [][(/\ pc = "tasks"
        /\ pc' = "idle"
        /\ \E x \in DOMAIN processCommandExecuted \cap DOMAIN runningProcesses' :
              ~processCommandExecuted[x] /\ processCommandExecuted'[x])
          => timers' = <<COMMAND_RESPONSE_DELAY>>]_vars

\* C18: a schedule call without a delay arms 2000 ms when the registry is
\* non-empty at the call and 5000 ms otherwise (the end of every heartbeat,
\* a shell's exit); a call with a delay arms that delay (the 1000 ms retry
\* of a timer that fires while the engine is busy).
C18_DelayChoice ==
    [][LET noDelay == IF Cardinality(DOMAIN runningProcesses') > 0
                      THEN 2000 ELSE 5000
       IN  /\ (pc # "idle" /\ pc' = "idle") => timers' = <<noDelay>>
           /\ (pc' = pc /\ ptyAlive' # ptyAlive) => timers' = <<noDelay>>
           /\ (TimerFire /\ pc = "idle" /\ ~configured) => timers' = <<noDelay>>
           /\ (TimerFire /\ Busy(heartbeatInProgress, processingTasks))
                  => timers' = <<1000>>]_vars

C18_Witness ==
    /\ pc = "inflight"
    /\ nextPid > 1
    /\ DOMAIN runningProcesses = {}
    /\ timers = <<DEFAULT_HEARTBEAT_INTERVAL>>

\* C19: at most one timer is pending, and it is the one the handle refers to.
C19_OnePendingTimer ==
    /\ Len(timers) <= 1
    /\ timers # <<>> => timers = <<heartbeatTimer>>

C19_Witness ==
    /\ pc = "telemetry"
    /\ heartbeatInProgress
    /\ nextPid > 1
    /\ Len(timers) = 1
    /\ heartbeatTimer = DEFAULT_HEARTBEAT_INTERVAL

C21_FirstHeartbeatAfterInterval ==
    [][(lastHeartbeatStatus = "Not yet sent" /\ pc # "telemetry" /\ pc' = "telemetry") =>
          (timers = <<DEFAULT_HEARTBEAT_INTERVAL>> /\ timers' = <<>>)]_vars

\* C21 (amended): on a cold start with valid configuration the first heartbeat
\* is sent by the startup code itself, with no timer armed before it has
\* finished; its payload has process_output = [] and callback =
\* {process_death: [], process_created: null}; when it finishes with no shell
\* in the registry the next heartbeat is armed 5000 ms later.
C21_FirstHeartbeatAtStartup ==
    [][/\ (pc = "boot" /\ configured) =>
              /\ pc' = "telemetry"
              /\ payload'.process_output = EmptyMap
              /\ payload'.callback = EmptyCallbacks
              /\ timers' = <<>>
       /\ (lastHeartbeatStatus = "Not yet sent" /\ pc = "telemetry" /\ pc' = "inflight") =>
              /\ sentCallback' = EmptyCallbacks
              /\ timers' = <<>>
       /\ (lastHeartbeatStatus = "Not yet sent" /\ pc = "inflight") => timers = <<>>
       /\ (lastHeartbeatStatus = "Not yet sent" /\ pc \notin {"boot", "idle"} /\ pc' = "idle"
             /\ DOMAIN runningProcesses' = {}) =>
              timers' = <<DEFAULT_HEARTBEAT_INTERVAL>>]_vars

C21_Witness ==
    /\ pc = "idle"
    /\ configured
    /\ lastHeartbeatStatus = "Success"
    /\ nextPid = 1
    /\ pendingCallbacks = EmptyCallbacks
    /\ timers = <<DEFAULT_HEARTBEAT_INTERVAL>>

\* C22: no request of the local HTTP interface changes agent state: the
\* registry, the output buffers, the command flags, the ledger and the
\* pending timer are the same after the request as before.
C22_RoutesReadOnly ==
    [][RouteRequest =>
          UNCHANGED <<runningProcesses, processOutputBuffer,
                      processCommandExecuted, pendingCallbacks, timers>>]_vars

\* C23: the process_output of every payload has exactly one entry for each
\* shell that is in the registry when the payload is built, also for a shell
\* whose buffer is empty (temp = ""), and none for any other id; with an empty
\* registry, as after a kill of the only shell, process_output is [].
C23_OneEntryPerShell ==
    [][(pc # "telemetry" /\ pc' = "telemetry") =>
          /\ DOMAIN payload'.process_output = DOMAIN runningProcesses'
          /\ \A p \in DOMAIN runningProcesses' :
                payload'.process_output[p].temp =
                    (IF p \in DOMAIN processOutputBuffer'
                     THEN processOutputBuffer'[p] ELSE <<>>)
          /\ DOMAIN runningProcesses' = {} => payload'.process_output = EmptyMap]_vars

C23_Witness ==
    /\ pc = "telemetry"
    /\ payload.process_output = EmptyMap
    /\ payload.callback.process_death # <<>>
    /\ DOMAIN processOutputBuffer # {}
    /\ DOMAIN runningProcesses = {}

----------------------------------------------------------------------------
(* Writing a command *)

\* C26: every command written to a shell is the normalized command followed
\* by "; pwd\n", and the write sets command_pending and expect_pwd of the
\* shell; a command with embedded newlines is collapsed to one line, so that
\* "ls\npwd" is written as "ls; pwd; pwd\n"
C26_WrittenIsNormalized ==
    [][(call'.op = "command" /\ call'.ok) =>
          /\ reg'.wr = Normalize(call'.text) \o <<";", " ", "p", "w", "d", "\n">>
          /\ reg'.pce[call'.pid]
          /\ reg'.rp[call'.pid]._expectPwd
          /\ call'.text = <<"l", "s", "\n", "p", "w", "d">> =>
                reg'.wr = <<"l", "s", ";", " ", "p", "w", "d", ";", " ",
                            "p", "w", "d", "\n">>]_vars

----------------------------------------------------------------------------
(* Round trip of a directory change *)

Tmp == <<"/", "t">>

\* p occurs in s
Within(s, p) == LastIndexOf(s, p) >= 0

\* dir is the last line of text: it follows a line break or starts the text,
\* and only white space follows it
EndsWithLine(text, dir) ==
    \E i \in 1..Len(text) :
        /\ i + Len(dir) - 1 <= Len(text)
        /\ SubSeq(text, i, i + Len(dir) - 1) = dir
        /\ \A j \in (i + Len(dir))..Len(text) : IsSpace(text[j])
        /\ i = 1 \/ text[i - 1] = "\n"

\* C27 as stated: after the spawn, a command "cd /tmp" written to the shell,
\* the output of the appended pwd and the acknowledgement of the command, the
\* cwd of the shell is /tmp and the prompt string of the next payload
\* contains /tmp
C27_RoundTrip ==
    (/\ call.op = "snapshot"
     /\ 1 \in DOMAIN reg.rp
     /\ tty.cwd = Tmp
     /\ tty.pwds = <<>>
     /\ ~reg.pce[1])
    => /\ reg.rp[1].workingDirectory = Tmp
       /\ Within(reg.pl.process_output[1].cwd, Tmp)

\* C27, amended: when the line printed by the appended pwd is the last line
\* of its chunk and expect_pwd is still set, the chunk sets the cwd of the
\* shell to the directory the shell is in and clears expect_pwd; the
\* acknowledgement keeps the cwd; the prompt string of the next payload is
\* built from that cwd and contains it
C27_RoundTripWhenPwdIsLastLine ==
    [][/\ (/\ call'.op = "pwd"
           /\ reg.rp[call'.pid]._expectPwd
           /\ EndsWithLine(call'.text, Head(tty.pwds)))
          => /\ reg'.rp[call'.pid].workingDirectory = Head(tty.pwds)
             /\ ~reg'.rp[call'.pid]._expectPwd
       /\ call'.op = "confirm"
          => /\ reg'.rp = reg.rp
             /\ ~reg'.pce[call'.pid]
       /\ call'.op = "snapshot"
          => \A p \in DOMAIN reg.rp :
                /\ reg'.pl.process_output[p].cwd =
                       <<"u", "@", "h", ":">> \o reg.rp[p].workingDirectory
                                              \o <<"#", " ">>
                /\ Within(reg'.pl.process_output[p].cwd,
                          reg.rp[p].workingDirectory)]_vars

C27_Witness ==
    /\ call.op = "snapshot"
    /\ 1 \in DOMAIN reg.rp
    /\ tty.cwd = Tmp
    /\ tty.pwds = <<>>
    /\ ~reg.pce[1]
    /\ reg.rp[1].workingDirectory = Tmp
    /\ Within(reg.pl.process_output[1].cwd, Tmp)

----------------------------------------------------------------------------
(* A heartbeat without configuration *)

\* C28: when the token or the URL is not configured, a heartbeat attempt posts
\* nothing, records the status Failed, leaves the registry and the ledger as
\* they are, releases the in-progress flag and arms the timer of the next
\* heartbeat; the agent stays in its event loop
C28_NotConfigured ==
    [][((Boot \/ TimerFire) /\ ~configured) =>
          /\ inFlight' = inFlight
          /\ sentCallback' = sentCallback
          /\ payload' = payload
          /\ pc' = "idle"
          /\ lastHeartbeatStatus' = "Failed"
          /\ runningProcesses' = runningProcesses
          /\ processOutputBuffer' = processOutputBuffer
          /\ processCommandExecuted' = processCommandExecuted
          /\ pendingCallbacks' = pendingCallbacks
          /\ ~heartbeatInProgress'
          /\ timers' = <<IF DOMAIN runningProcesses # {}
                         THEN MANAGED_HEARTBEAT_INTERVAL
                         ELSE DEFAULT_HEARTBEAT_INTERVAL>>]_vars

C28_Witness ==
    /\ ~configured
    /\ pc = "idle"
    /\ lastHeartbeatStatus = "Failed"
    /\ ~heartbeatInProgress
    /\ nextPid = 2
    /\ \E p \in DOMAIN runningProcesses : processCommandExecuted[p]
    /\ timers = <<MANAGED_HEARTBEAT_INTERVAL>>
    /\ inFlight = 0

----------------------------------------------------------------------------
(* A spawn that fails *)

\* C29: when the creation of the PTY fails during a spawn, no shell is added
\* to the registry (nor a buffer or a flag for one) and process_created keeps
\* the value it had before the attempt
C29_FailedSpawn ==
    [][(call'.op = "spawn" /\ ~call'.ok) =>
          /\ reg'.rp = reg.rp
          /\ reg'.buf = reg.buf
          /\ reg'.pce = reg.pce
          /\ reg'.pcb = reg.pcb]_vars

C29_Witness ==
    /\ call.op = "spawn"
    /\ ~call.ok
    /\ DOMAIN reg.rp = {1}
    /\ reg.pcb.process_created = 1

----------------------------------------------------------------------------
(* The death ledger as a set *)

\* no value occurs twice in arr
NoRepeat(arr) == \A i, j \in 1..Len(arr) : arr[i] = arr[j] => i = j

\* C30: process_death behaves as a set: no shell id occurs more than once in
\* the ledger, in the payload being built or in the callback block of a
\* heartbeat that was sent, so that the heartbeat after the kill of the only
\* shell x carries exactly [x]
C30_ProcessDeathIsSet ==
    /\ NoRepeat(pendingCallbacks.process_death)
    /\ NoRepeat(payload.callback.process_death)
    /\ NoRepeat(sentCallback.process_death)

----------------------------------------------------------------------------
(* The steps of a task batch *)

\* the number of times x occurs in arr
Count(arr, x) == Cardinality({ i \in 1..Len(arr) : arr[i] = x })

\* C31: after the confirm_process_death step every listed id that is not in
\* the registry is in process_death, added once if it was missing; a listed
\* id that is still in the registry is not added, and the step neither kills
\* nor changes any shell
C31_ConfirmDeathFrame ==
    [][call'.op = "confirm_death" =>
          /\ \A id \in Range(call'.text) \ DOMAIN reg.rp :
                Count(reg'.pcb.process_death, id) =
                    (IF Count(reg.pcb.process_death, id) = 0 THEN 1
                     ELSE Count(reg.pcb.process_death, id))
          /\ \A id \in Ids \ (Range(call'.text) \ DOMAIN reg.rp) :
                Count(reg'.pcb.process_death, id) = Count(reg.pcb.process_death, id)
          /\ reg'.pcb.process_created = reg.pcb.process_created
          /\ reg'.rp = reg.rp
          /\ reg'.pce = reg.pce
          /\ reg'.buf = reg.buf
          /\ reg'.alive = reg.alive]_vars

C31_Witness ==
    /\ call.op = "confirm_death"
    /\ Range(call.text) = Ids
    /\ DOMAIN reg.rp = {1}
    /\ reg.pcb.process_death = <<UnknownPid>>

\* C32: within one batch the steps run in the order death-confirm, spawn,
\* commands, kills, acknowledgements: an id confirmed dead in the batch that
\* spawns it is still recorded dead; a command for the shell the batch spawns
\* is written; a command for a shell the batch kills is written before the
\* kill; a command acknowledged in the batch that writes it is not pending
\* afterwards
C32_StepOrder ==
    [][call'.op = "batch" =>
          LET t == call'.tasks
              new == reg.np
              spawns == t.if_require_new_process = 1 /\ call'.spawnOk
              live == DOMAIN reg.rp \cup (IF spawns THEN {new} ELSE {})
              runs == t.if_require_new_process = 1 => call'.spawnOk
              written == <<"l", "s", ";", " ", "p", "w", "d", "\n">>
          IN  /\ (spawns /\ t.confirm_process_death = <<new>>)
                    => Includes(reg'.pcb.process_death, new)
              /\ (spawns /\ t.command # <<>> /\ t.command[1].PID = new)
                    => call'.ok /\ reg'.wr = written
              /\ (runs /\ t.command # <<>> /\ t.command[1].PID \in live
                       /\ t.kill_process = <<t.command[1].PID>>)
                    => /\ call'.ok
                       /\ reg'.wr = written
                       /\ t.command[1].PID \notin DOMAIN reg'.rp
              /\ (runs /\ t.command # <<>> /\ t.command[1].PID \in live
                       /\ t.kill_process = <<>>
                       /\ t.command[1].PID \in call'.acks)
                    => /\ reg'.wr = written
                       /\ ~reg'.pce[t.command[1].PID]]_vars

C32_Witness ==
    /\ call.op = "batch"
    /\ call.ok
    /\ call.tasks.command # <<>>
    /\ call.tasks.command[1].PID = 1
    /\ call.tasks.kill_process = <<1>>
    /\ call.tasks.if_require_new_process = 0
    /\ reg.wr # <<>>
    /\ 1 \notin DOMAIN reg.rp
    /\ Includes(reg.pcb.process_death, 1)

\* C33: after a task batch has been applied, every id of the response's
\* command_executed_confirmed that is still in the registry has its command
\* flag false, and an id of that list that is not in the registry has got
\* no flag, no buffer and no registry entry
C33_AcksApplied ==
    [][(pc = "tasks" /\ pc' # "tasks") =>
          \A id \in response.command_executed_confirmed :
              /\ id \in DOMAIN runningProcesses' => ~processCommandExecuted'[id]
              /\ id \notin DOMAIN runningProcesses' =>
                    /\ id \in DOMAIN processCommandExecuted'
                          => id \in DOMAIN processCommandExecuted
                    /\ id \in DOMAIN processOutputBuffer'
                          => id \in DOMAIN processOutputBuffer]_vars

----------------------------------------------------------------------------
(* The timer callback *)

\* C34: when the timer fires while a heartbeat or a task batch is in
\* progress, no heartbeat is started and the timer is re-armed with exactly
\* 1000 ms; when it fires with both flags false, sendHeartbeat is called: it
\* takes the in-progress flag and builds a payload, or, without
\* configuration, records a failure
C34_TimerCallback ==
    [][TimerFire =>
          IF heartbeatInProgress \/ processingTasks
          THEN /\ inFlight' = inFlight
               /\ pc' = pc
               /\ payload' = payload
               /\ heartbeatInProgress' = heartbeatInProgress
               /\ heartbeatTimer' = 1000
               /\ timers' = <<1000>>
          ELSE IF configured
          THEN /\ heartbeatInProgress'
               /\ pc' = "telemetry"
               /\ inFlight' = inFlight + 1
          ELSE /\ lastHeartbeatStatus' = "Failed"
               /\ pc' = "idle"]_vars

C34_Witness ==
    /\ pc = "telemetry"
    /\ heartbeatInProgress
    /\ inFlight = 1
    /\ heartbeatTimer = 1000
    /\ timers = <<1000>>
    /\ lastHeartbeatStatus = "Success"

----------------------------------------------------------------------------
(* A write to an unknown shell *)

\* C35: a command write to an id that is not in the registry fails and
\* changes nothing: no command flag and no expect_pwd is set, no buffer and
\* no registry entry is created, the ledger is unchanged, nothing is written
\* and no timer is re-armed
C35_WriteUnknownShell ==
    [][(call'.op = "write" /\ call'.pid \notin DOMAIN reg.rp) =>
          /\ ~call'.ok
          /\ reg'.wr = <<>>
          /\ reg'.rp = reg.rp
          /\ reg'.pce = reg.pce
          /\ reg'.buf = reg.buf
          /\ reg'.pcb = reg.pcb
          /\ reg'.tm = reg.tm
          /\ reg'.ht = reg.ht]_vars

C35_Witness ==
    /\ call.op = "write"
    /\ ~call.ok
    /\ call.pid = 1
    /\ 1 \notin DOMAIN reg.rp
    /\ 1 \in reg.alive
    /\ reg.pcb.process_death = <<1>>

----------------------------------------------------------------------------
(* The working directory of a shell *)

\* the last line of text that holds more than white space, trimmed
LastNonEmptyLine(text) ==
    LET lines == SplitLines(text)
        full == { i \in 1..Len(lines) : Trim(lines[i]) # <<>> }
    IN  IF full = {} THEN <<>>
        ELSE Trim(lines[CHOOSE i \in full : \A j \in full : j <= i])

\* line looks like an absolute path: /... or X:\...
LooksAbsolute(line) ==
    /\ line # <<>>
    /\ \/ line[1] = "/"
       \/ /\ Len(line) >= 3
          /\ line[1] \in {"A", "B", "C", "D", "E", "F", "G", "H", "I", "J", "K",
                          "L", "M", "N", "O", "P", "Q", "R", "S", "T", "U", "V",
                          "W", "X", "Y", "Z"}
          /\ line[2] = ":"
          /\ line[3] = "\\"

\* C36: the cwd of a shell changes only in handleProcessOutput, only while
\* expect_pwd is set and only when the last non-empty line of the chunk looks
\* like an absolute path; cwd then becomes that line and expect_pwd is
\* cleared in the same step.  If the line is not path-like, cwd and
\* expect_pwd stay and the whole chunk is appended to the buffer.
C36_CwdOnlyFromPwdLine ==
    [][\A p \in DOMAIN reg.rp \cap DOMAIN reg'.rp :
          LET line == LastNonEmptyLine(call'.text)
              parsed == /\ call'.op = "data"
                        /\ call'.pid = p
                        /\ reg.rp[p]._expectPwd
                        /\ LooksAbsolute(line)
          IN  /\ reg'.rp[p].workingDirectory # reg.rp[p].workingDirectory => parsed
              /\ parsed => /\ reg'.rp[p].workingDirectory = line
                           /\ ~reg'.rp[p]._expectPwd
              /\ (call'.op = "data" /\ call'.pid = p /\ ~LooksAbsolute(line))
                    => /\ reg'.rp[p] = reg.rp[p]
                       /\ reg'.buf[p] = Truncate(reg.buf[p] \o call'.text)]_vars

C36_Witness ==
    /\ call.op = "data"
    /\ call.text = <<"\n", " ", "/", "u", " ", "\r", "\n", " ", "\n">>
    /\ call.pid \in DOMAIN reg.rp
    /\ reg.rp[call.pid].workingDirectory = <<"/", "u">>
    /\ ~reg.rp[call.pid]._expectPwd

----------------------------------------------------------------------------
(* The callback block of a payload *)

\* C37: the callback block of a payload is a snapshot of the ledger at the
\* time the payload is built: a death or a spawn recorded while the telemetry
\* is awaited changes neither the process_death nor the process_created of
\* the payload, and the POST sends the block as it was built
C37_CallbackIsSnapshot ==
    [][/\ (pc = "telemetry" /\ pc' = "telemetry")
             => payload'.callback = payload.callback
       /\ (pc = "telemetry" /\ pc' = "inflight")
             => sentCallback' = payload.callback]_vars

----------------------------------------------------------------------------
(* Ownership of buffers and flags *)

\* C38: buffers and command flags are owned 1:1 by shells: the ids that have
\* an output buffer, the ids that have a command flag and the ids of the
\* registry are the same set in every state, also when output of a shell
\* arrives after kill removed it and before its exit event
C38_OwnedByShells ==
    /\ DOMAIN reg.buf = DOMAIN reg.rp
    /\ DOMAIN reg.pce = DOMAIN reg.rp

----------------------------------------------------------------------------
(* Normalising twice *)

\* C39: normalisation is idempotent on the steps that run twice: the text
\* written for a task command, which processTasks has prepared and
\* executeCommandInProcess has normalized again, is the text that one
\* normalisation of executeCommandInProcess makes of the original command
C39_NormalizeTwiceIsOnce ==
    (call.op = "command" /\ call.ok) => reg.wr = Compose(call.text)

====
